---- MODULE Spec2Model ----
(***************************************************************************)
(* Room / match lifecycle of the chess arena backend (src/server.js, the   *)
(* v7 server that starts at line 867): the match registry, the payment     *)
(* gate, the lazy chess clock, the move handler and the payout.            *)
(*                                                                         *)
(* A JavaScript request handler runs to completion between two awaits, so  *)
(* every action below is one such run: a synchronous handler is one        *)
(* action, and a handler that awaits the ledger is split at the await.     *)
(* Room objects live in `heap`; the registry `rooms` maps a code to the    *)
(* object stored under it, and a handler that is suspended at an await     *)
(* keeps its reference to the object whatever happens to the registry.     *)
(* A request that is rejected changes nothing: what it answers is given by *)
(* the handler's reply operator (JoinReply, VerifyCheck, VerifyReply,      *)
(* MoveReply), which is the handler's ladder of early returns.             *)
(***************************************************************************)
EXTENDS Integers, Sequences, FiniteSets, Bags, TLC

\* ------------------------------------------------------------- bounds
MaxRooms == 2        \* room objects created in one behaviour of SpecRegistry
MaxInflight == 2     \* payment verifications suspended at the ledger lookup
MaxTicks == 3        \* steps of wall-clock time in one behaviour
MaxIdleTicks == 7    \* periods of the cleanup interval in one behaviour of SpecExpiry
MaxGameTicks == 4    \* steps of wall-clock time during one game of SpecClock: both budgets

\* ------------------------------------------------------------- inputs
Codes == {"AAAAAA", "BBBBBB"}            \* values genCode() returns
Wallets == {"w1", "w2", "w3"}            \* addresses isValidWallet accepts
NoWallet == ""                           \* creatorWallet left out of the body
InvalidWallet == "bad"                   \* a string isValidWallet refuses
CreatorWallets == {NoWallet, "w1"}
JoinWallets == {"w1", "w2", InvalidWallet}
PayWallets == Wallets \cup {InvalidWallet}
GameCodes == {"AAAAAA"}                  \* the code of the room Spec follows
GamePayWallets == {"w1", "w2", InvalidWallet}
Txs == {"t1", "t2"}                      \* transaction signatures
LedgerResults == {"ok", "notfound", "failed", "throws"}
PayoutResults == {"sent", "error"}
PlayerIds == {0, 1, 2}
FromSquares == {<<6, 4>>, <<0, 4>>, <<8, 4>>}   \* a white pawn, the black king, off the board
ToSquares == {<<4, 4>>, <<0, 4>>, <<7, 4>>, <<4, 8>>}   \* empty, the black king, the white king, off the board
TokenAmounts == {500}
MaxTokenAmount == 7   \* SpecStakes: tokenAmount ranges over 0..MaxTokenAmount and 500
MatchTokenAmounts == (0..MaxTokenAmount) \cup TokenAmounts
AllSquares == (0..7) \X (0..7)
MatchPayments == {<<"t1", "w1">>, <<"t2", "w2">>}   \* each player's own payment
MatchPlayerIds == {0, 1}
RoomsPayments ==      \* each player's own payment for each code
    {<<"AAAAAA", "t1", "w1">>, <<"AAAAAA", "t2", "w2">>,
     <<"BBBBBB", "t3", "w1">>, <<"BBBBBB", "t4", "w2">>}

\* ------------------------------------------------------------- constants
TOKEN_DECIMALS == 6
COMMISSION_RATE_PERCENT == 10            \* COMMISSION_RATE = 0.10
GAME_TIME_MS == 10 * 60 * 1000
FINISHED_RETENTION_MS == 10 * 60 * 1000
WAITING_RETENTION_MS == 30 * 60 * 1000
TickMs == 5 * 60 * 1000     \* the step of time: the period of the sweep
StartTime == TickMs         \* Date.now() when the server starts (any value > 0)
NoWinner == -1              \* winner: null
NoTime == 0                 \* lastMoveTime, finishedAt: null
NoRoom == 0                 \* rooms.get(code) is undefined
NoAmount == -1              \* payoutAmount: undefined

INIT_BOARD ==
    << <<"r", "n", "b", "q", "k", "b", "n", "r">>,
       <<"p", "p", "p", "p", "p", "p", "p", "p">>,
       <<"", "", "", "", "", "", "", "">>,
       <<"", "", "", "", "", "", "", "">>,
       <<"", "", "", "", "", "", "", "">>,
       <<"", "", "", "", "", "", "", "">>,
       <<"P", "P", "P", "P", "P", "P", "P", "P">>,
       <<"R", "N", "B", "Q", "K", "B", "N", "R">> >>

VARIABLES
    rooms,          \* the registry: code -> index in heap of the room stored, or NoRoom
    heap,           \* the room objects, in creation order
    processedTx,    \* the replay-guard set
    verifying,      \* bag of the verify handlers suspended at connection.getTransaction
    paying,         \* bag of the handlePayout calls suspended at the ledger
    transfers,      \* bag of the token transfers the ledger accepted
    payoutCalls,    \* per room object: how often handlePayout was invoked
    wallet,         \* whether the platform keypair is configured
    now             \* Date.now()

vars == <<rooms, heap, processedTx, verifying, paying, transfers, payoutCalls, wallet, now>>

\* ------------------------------------------------------------- helpers
Max(a, b) == IF a >= b THEN a ELSE b

isValidWallet(address) == address \in Wallets

\* board[row][col] with the source's 0-based coordinates
At(board, sq) == board[sq[1] + 1][sq[2] + 1]

SetAt(board, sq, piece) ==
    [board EXCEPT ![sq[1] + 1] = [@ EXCEPT ![sq[2] + 1] = piece]]

toUpperCase(piece) ==
    CASE piece = "r" -> "R" [] piece = "n" -> "N" [] piece = "b" -> "B"
      [] piece = "q" -> "Q" [] piece = "k" -> "K" [] piece = "p" -> "P"
      [] OTHER -> piece

toLowerCase(piece) ==
    CASE piece = "R" -> "r" [] piece = "N" -> "n" [] piece = "B" -> "b"
      [] piece = "Q" -> "q" [] piece = "K" -> "k" [] piece = "P" -> "p"
      [] OTHER -> piece

InBounds(sq) == sq[1] >= 0 /\ sq[1] <= 7 /\ sq[2] >= 0 /\ sq[2] <= 7

NewRoom(code, creatorWallet, tokenAmount) ==
    [ code |-> code,
      createdAt |-> now,
      tokenAmount |-> tokenAmount,
      status |-> "waiting_players",
      confirmedPayments |-> 0,
      board |-> INIT_BOARD,
      currentTurn |-> "white",
      lastMove |-> <<>>,
      winner |-> NoWinner,
      whiteTimeMs |-> GAME_TIME_MS,
      blackTimeMs |-> GAME_TIME_MS,
      lastMoveTime |-> NoTime,
      finishedAt |-> NoTime,
      players |-> << [id |-> 0, wallet |-> creatorWallet, color |-> "white", paid |-> FALSE] >>,
      payoutTx |-> "",
      payoutAmount |-> NoAmount,
      payoutTime |-> NoTime,
      payoutError |-> "" ]

Reply(status, msg) == [status |-> status, msg |-> msg]

Init ==
    /\ rooms = [c \in Codes |-> NoRoom]
    /\ heap = <<>>
    /\ processedTx = {}
    /\ verifying = EmptyBag
    /\ paying = EmptyBag
    /\ transfers = EmptyBag
    /\ payoutCalls = <<>>
    /\ wallet \in BOOLEAN
    /\ now = StartTime

\* ------------------------------------------------------------- POST /api/rooms
CreateRoom(code, creatorWallet, tokenAmount) ==
    /\ heap' = Append(heap, NewRoom(code, creatorWallet, tokenAmount))
    /\ payoutCalls' = Append(payoutCalls, 0)
    /\ rooms' = [rooms EXCEPT ![code] = Len(heap) + 1]
    /\ UNCHANGED <<processedTx, verifying, paying, transfers, wallet, now>>

\* ------------------------------------------------------------- POST /api/rooms/:code/join
\* JoinReply without the "Room is full" return.
JoinReplyNoFullCheck(code, playerWallet) ==
    LET r == rooms[code] IN
    IF r = NoRoom THEN Reply(404, "Room not found")
    ELSE IF heap[r].status = "finished" THEN Reply(400, "Game already finished")
    ELSE IF heap[r].status = "playing" THEN Reply(400, "Game already started")
    ELSE IF ~isValidWallet(playerWallet) THEN Reply(400, "Invalid wallet")
    ELSE IF \E i \in 1..Len(heap[r].players) : heap[r].players[i].wallet = playerWallet
         THEN Reply(400, "You are already in this room")
    ELSE Reply(200, "joined")

\* JoinReply without the "You are already in this room" return.
JoinReplyNoDuplicateCheck(code, playerWallet) ==
    LET r == rooms[code] IN
    IF r = NoRoom THEN Reply(404, "Room not found")
    ELSE IF heap[r].status = "finished" THEN Reply(400, "Game already finished")
    ELSE IF heap[r].status = "playing" THEN Reply(400, "Game already started")
    ELSE IF Len(heap[r].players) >= 2 THEN Reply(400, "Room is full")
    ELSE IF ~isValidWallet(playerWallet) THEN Reply(400, "Invalid wallet")
    ELSE Reply(200, "joined")

JoinReply(code, playerWallet) ==
    LET r == rooms[code] IN
    IF r = NoRoom THEN Reply(404, "Room not found")
    ELSE IF heap[r].status = "finished" THEN Reply(400, "Game already finished")
    ELSE IF heap[r].status = "playing" THEN Reply(400, "Game already started")
    ELSE IF Len(heap[r].players) >= 2 THEN Reply(400, "Room is full")
    ELSE IF ~isValidWallet(playerWallet) THEN Reply(400, "Invalid wallet")
    ELSE IF \E i \in 1..Len(heap[r].players) : heap[r].players[i].wallet = playerWallet
         THEN Reply(400, "You are already in this room")
    ELSE Reply(200, "joined")

\* AddPlayer that leaves the status as it was.
AddPlayerKeepsStatus(room, playerWallet) ==
    [room EXCEPT !.players = Append(@, [id |-> 1, wallet |-> playerWallet,
                                        color |-> "black", paid |-> FALSE])]

AddPlayer(room, playerWallet) ==
    [room EXCEPT !.players = Append(@, [id |-> 1, wallet |-> playerWallet,
                                        color |-> "black", paid |-> FALSE]),
                 !.status = "waiting_payments"]

JoinRoom(code, playerWallet) ==
    /\ IF JoinReply(code, playerWallet).status = 200
       THEN heap' = [heap EXCEPT ![rooms[code]] = AddPlayer(@, playerWallet)]
       ELSE UNCHANGED heap
    /\ UNCHANGED <<rooms, processedTx, verifying, paying, transfers, payoutCalls, wallet, now>>

\* ------------------------------------------------------------- POST /api/payments/verify
\* VerifyCheck without the processedTx.has(txSignature) return.
VerifyCheckNoReplayGuard(roomCode, txSignature, playerWallet) ==
    LET r == rooms[roomCode] IN
    IF ~isValidWallet(playerWallet) THEN Reply(400, "Invalid wallet address")
    ELSE IF r = NoRoom THEN Reply(404, "Room not found")
    ELSE IF heap[r].status = "finished" THEN Reply(400, "Game already finished")
    ELSE IF heap[r].status = "playing" THEN Reply(400, "Game already started")
    ELSE IF \E i \in 1..Len(heap[r].players) :
                heap[r].players[i].wallet = playerWallet /\ heap[r].players[i].paid
         THEN Reply(400, "You already paid for this room. Cannot play against yourself!")
    ELSE Reply(0, "pending")

\* The handler up to its await (lines 2074-2095): the reply when it returns
\* early, "pending" when it goes on to connection.getTransaction.
VerifyCheck(roomCode, txSignature, playerWallet) ==
    LET r == rooms[roomCode] IN
    IF ~isValidWallet(playerWallet) THEN Reply(400, "Invalid wallet address")
    ELSE IF r = NoRoom THEN Reply(404, "Room not found")
    ELSE IF heap[r].status = "finished" THEN Reply(400, "Game already finished")
    ELSE IF heap[r].status = "playing" THEN Reply(400, "Game already started")
    ELSE IF txSignature \in processedTx THEN Reply(400, "Transaction already processed")
    ELSE IF \E i \in 1..Len(heap[r].players) :
                heap[r].players[i].wallet = playerWallet /\ heap[r].players[i].paid
         THEN Reply(400, "You already paid for this room. Cannot play against yourself!")
    ELSE Reply(0, "pending")

VerifyBegin(roomCode, txSignature, playerWallet) ==
    /\ IF VerifyCheck(roomCode, txSignature, playerWallet).msg = "pending"
       THEN /\ BagCardinality(verifying) < MaxInflight
            /\ verifying' = verifying (+) SetToBag({[room |-> rooms[roomCode],
                                                     tx |-> txSignature,
                                                     wallet |-> playerWallet]})
       ELSE UNCHANGED verifying
    /\ UNCHANGED <<rooms, heap, processedTx, paying, transfers, payoutCalls, wallet, now>>

\* players.find(p => !p.paid): the index of the first match, 0 when there is none
FirstUnpaid(players) ==
    IF \E i \in 1..Len(players) : ~players[i].paid
    THEN CHOOSE i \in 1..Len(players) :
            ~players[i].paid /\ \A j \in 1..(i - 1) : players[j].paid
    ELSE 0

\* let player = players.find(p => p.wallet === playerWallet && !p.paid);
\* if (!player) player = players.find(p => !p.paid);
PaymentSlot(players, playerWallet) ==
    IF \E i \in 1..Len(players) : players[i].wallet = playerWallet /\ ~players[i].paid
    THEN CHOOSE i \in 1..Len(players) :
            /\ players[i].wallet = playerWallet /\ ~players[i].paid
            /\ \A j \in 1..(i - 1) : ~(players[j].wallet = playerWallet /\ ~players[j].paid)
    ELSE FirstUnpaid(players)

\* OtherPlayer that never finds the paying wallet in another slot.
OtherPlayerIgnored(players, playerWallet, slot) == FALSE

\* players.find(p => p.wallet === playerWallet && p !== player)
OtherPlayer(players, playerWallet, slot) ==
    \E i \in 1..Len(players) : i # slot /\ players[i].wallet = playerWallet

\* VerifyReply without the tx.meta?.err return.
VerifyReplyIgnoresTxError(room, playerWallet, result) ==
    IF result = "throws" THEN Reply(500, "ledger error")
    ELSE IF result = "notfound" THEN Reply(400, "TX not found")
    ELSE IF PaymentSlot(room.players, playerWallet) = 0 THEN Reply(400, "All paid")
    ELSE IF OtherPlayer(room.players, playerWallet, PaymentSlot(room.players, playerWallet))
         THEN Reply(400, "Cannot play against yourself!")
    ELSE Reply(200, "Payment confirmed!")

\* The handler after the await (lines 2096-2127), on the room object it holds.
VerifyReply(room, playerWallet, result) ==
    IF result = "throws" THEN Reply(500, "ledger error")
    ELSE IF result = "notfound" THEN Reply(400, "TX not found")
    ELSE IF result = "failed" THEN Reply(400, "TX failed")
    ELSE IF PaymentSlot(room.players, playerWallet) = 0 THEN Reply(400, "All paid")
    ELSE IF OtherPlayer(room.players, playerWallet, PaymentSlot(room.players, playerWallet))
         THEN Reply(400, "Cannot play against yourself!")
    ELSE Reply(200, "Payment confirmed!")

\* CreditPayment that starts the game on the first confirmed payment.
CreditPaymentStartsEarly(room, playerWallet) ==
    LET slot == PaymentSlot(room.players, playerWallet)
        paid == [room EXCEPT !.players[slot].paid = TRUE,
                             !.players[slot].wallet = playerWallet,
                             !.confirmedPayments = @ + 1]
    IN  IF paid.confirmedPayments >= 1
        THEN [paid EXCEPT !.status = "playing", !.lastMoveTime = now]
        ELSE paid

\* CreditPayment that starts the game without stamping lastMoveTime.
CreditPaymentNoStamp(room, playerWallet) ==
    LET slot == PaymentSlot(room.players, playerWallet)
        paid == [room EXCEPT !.players[slot].paid = TRUE,
                             !.players[slot].wallet = playerWallet,
                             !.confirmedPayments = @ + 1]
    IN  IF paid.confirmedPayments >= 2 /\ Len(paid.players) >= 2
        THEN [paid EXCEPT !.status = "playing"]
        ELSE paid

\* CreditPayment that marks the slot paid without counting the payment.
CreditPaymentNoCount(room, playerWallet) ==
    LET slot == PaymentSlot(room.players, playerWallet)
        paid == [room EXCEPT !.players[slot].paid = TRUE,
                             !.players[slot].wallet = playerWallet]
    IN  IF paid.confirmedPayments >= 2 /\ Len(paid.players) >= 2
        THEN [paid EXCEPT !.status = "playing", !.lastMoveTime = now]
        ELSE paid

CreditPayment(room, playerWallet) ==
    LET slot == PaymentSlot(room.players, playerWallet)
        paid == [room EXCEPT !.players[slot].paid = TRUE,
                             !.players[slot].wallet = playerWallet,
                             !.confirmedPayments = @ + 1]
    IN  IF paid.confirmedPayments >= 2 /\ Len(paid.players) >= 2
        THEN [paid EXCEPT !.status = "playing", !.lastMoveTime = now]
        ELSE paid

RecordTx(txSignature) == processedTx \cup {txSignature}

VerifyFinish(req, result) ==
    /\ verifying' = verifying (-) SetToBag({req})
    /\ IF VerifyReply(heap[req.room], req.wallet, result).status = 200
       THEN /\ heap' = [heap EXCEPT ![req.room] = CreditPayment(@, req.wallet)]
            /\ processedTx' = RecordTx(req.tx)
       ELSE UNCHANGED <<heap, processedTx>>
    /\ UNCHANGED <<rooms, paying, transfers, payoutCalls, wallet, now>>

\* ------------------------------------------------------------- updateTimer
\* updateTimer that names the side whose time ran out as the winner.
updateTimerWinnerSwapped(room) ==
    IF room.status # "playing" \/ room.lastMoveTime = NoTime
    THEN [room |-> room, payout |-> FALSE]
    ELSE LET elapsed == now - room.lastMoveTime
             white == room.currentTurn = "white"
             left == Max(0, (IF white THEN room.whiteTimeMs ELSE room.blackTimeMs) - elapsed)
             ticked == IF white THEN [room EXCEPT !.whiteTimeMs = left]
                                ELSE [room EXCEPT !.blackTimeMs = left]
             over == [ticked EXCEPT !.winner = IF white THEN 0 ELSE 1,
                                    !.status = "finished",
                                    !.finishedAt = now]
         IN  [room |-> [(IF left <= 0 THEN over ELSE ticked) EXCEPT !.lastMoveTime = now],
              payout |-> left <= 0]

\* updateTimer without the Math.max(0, ...) clamp.
updateTimerNoClamp(room) ==
    IF room.status # "playing" \/ room.lastMoveTime = NoTime
    THEN [room |-> room, payout |-> FALSE]
    ELSE LET elapsed == now - room.lastMoveTime
             white == room.currentTurn = "white"
             left == (IF white THEN room.whiteTimeMs ELSE room.blackTimeMs) - elapsed
             ticked == IF white THEN [room EXCEPT !.whiteTimeMs = left]
                                ELSE [room EXCEPT !.blackTimeMs = left]
             over == [ticked EXCEPT !.winner = IF white THEN 1 ELSE 0,
                                    !.status = "finished",
                                    !.finishedAt = now]
         IN  [room |-> [(IF left <= 0 THEN over ELSE ticked) EXCEPT !.lastMoveTime = now],
              payout |-> left <= 0]

\* updateTimer without the status !== 'playing' return.
updateTimerUnguarded(room) ==
    IF room.lastMoveTime = NoTime
    THEN [room |-> room, payout |-> FALSE]
    ELSE LET elapsed == now - room.lastMoveTime
             white == room.currentTurn = "white"
             left == Max(0, (IF white THEN room.whiteTimeMs ELSE room.blackTimeMs) - elapsed)
             ticked == IF white THEN [room EXCEPT !.whiteTimeMs = left]
                                ELSE [room EXCEPT !.blackTimeMs = left]
             over == [ticked EXCEPT !.winner = IF white THEN 1 ELSE 0,
                                    !.status = "finished",
                                    !.finishedAt = now]
         IN  [room |-> [(IF left <= 0 THEN over ELSE ticked) EXCEPT !.lastMoveTime = now],
              payout |-> left <= 0]

\* updateTimer that restarts the measurement without charging the elapsed time.
updateTimerForgetsElapsed(room) ==
    IF room.status # "playing" \/ room.lastMoveTime = NoTime
    THEN [room |-> room, payout |-> FALSE]
    ELSE [room |-> [room EXCEPT !.lastMoveTime = now], payout |-> FALSE]

\* updateTimer without the closing lastMoveTime = Date.now().
updateTimerNoRestamp(room) ==
    IF room.status # "playing" \/ room.lastMoveTime = NoTime
    THEN [room |-> room, payout |-> FALSE]
    ELSE LET elapsed == now - room.lastMoveTime
             white == room.currentTurn = "white"
             left == Max(0, (IF white THEN room.whiteTimeMs ELSE room.blackTimeMs) - elapsed)
             ticked == IF white THEN [room EXCEPT !.whiteTimeMs = left]
                                ELSE [room EXCEPT !.blackTimeMs = left]
             over == [ticked EXCEPT !.winner = IF white THEN 1 ELSE 0,
                                    !.status = "finished",
                                    !.finishedAt = now]
         IN  [room |-> IF left <= 0 THEN over ELSE ticked,
              payout |-> left <= 0]

\* The room after updateTimer(room), and whether it called handlePayout(room).
updateTimer(room) ==
    IF room.status # "playing" \/ room.lastMoveTime = NoTime
    THEN [room |-> room, payout |-> FALSE]
    ELSE LET elapsed == now - room.lastMoveTime
             white == room.currentTurn = "white"
             left == Max(0, (IF white THEN room.whiteTimeMs ELSE room.blackTimeMs) - elapsed)
             ticked == IF white THEN [room EXCEPT !.whiteTimeMs = left]
                                ELSE [room EXCEPT !.blackTimeMs = left]
             over == [ticked EXCEPT !.winner = IF white THEN 1 ELSE 0,
                                    !.status = "finished",
                                    !.finishedAt = now]
         IN  [room |-> [(IF left <= 0 THEN over ELSE ticked) EXCEPT !.lastMoveTime = now],
              payout |-> left <= 0]

\* ------------------------------------------------------------- handlePayout
\* handlePayout(room) up to its first await: whether it goes on to the ledger.
PayoutSubmits(room) ==
    /\ wallet
    /\ room.winner + 1 \in 1..Len(room.players)
    /\ room.players[room.winner + 1].wallet # NoWallet

\* payoutTokens that takes the commission from each stake before doubling.
payoutTokensPerStake(room) ==
    ((room.tokenAmount * (100 - COMMISSION_RATE_PERCENT)) \div 100) * 2

\* Math.floor(room.tokenAmount * 2 * (1 - COMMISSION_RATE))
payoutTokens(room) == (room.tokenAmount * 2 * (100 - COMMISSION_RATE_PERCENT)) \div 100

\* PayoutRequest that takes the player who is not the winner as the recipient.
PayoutRequestToLoser(r, room) ==
    [ room |-> r,
      recipient |-> room.players[2 - room.winner].wallet,
      payoutTokens |-> payoutTokens(room),
      amount |-> payoutTokens(room) * 10^TOKEN_DECIMALS ]

\* What handlePayout(room) holds while it awaits the ledger: the room object,
\* the recipient and the amount in the token's smallest unit.
PayoutRequest(r, room) ==
    [ room |-> r,
      recipient |-> room.players[room.winner + 1].wallet,
      payoutTokens |-> payoutTokens(room),
      amount |-> payoutTokens(room) * 10^TOKEN_DECIMALS ]

\* The calls of handlePayout one handler makes on room object r.
CallPayout(r, called) ==
    IF called
    THEN /\ payoutCalls' = [payoutCalls EXCEPT ![r] = @ + 1]
         /\ paying' = IF PayoutSubmits(heap'[r])
                      THEN paying (+) SetToBag({PayoutRequest(r, heap'[r])})
                      ELSE paying
    ELSE UNCHANGED <<payoutCalls, paying>>

\* SettleRoom that records the amount and the time of a payout that failed.
SettleRoomStampsFailure(room, req, result) ==
    IF result = "sent"
    THEN [room EXCEPT !.payoutTx = "sig", !.payoutAmount = req.payoutTokens,
                      !.payoutTime = now]
    ELSE [room EXCEPT !.payoutError = "error", !.payoutAmount = req.payoutTokens,
                      !.payoutTime = now]

\* handlePayout after connection.sendRawTransaction returned or an await threw.
SettleRoom(room, req, result) ==
    IF result = "sent"
    THEN [room EXCEPT !.payoutTx = "sig", !.payoutAmount = req.payoutTokens,
                      !.payoutTime = now]
    ELSE [room EXCEPT !.payoutError = "error"]

PayoutFinish(req, result) ==
    /\ paying' = paying (-) SetToBag({req})
    /\ heap' = [heap EXCEPT ![req.room] = SettleRoom(@, req, result)]
    /\ transfers' = IF result = "sent"
                    THEN transfers (+) SetToBag({[room |-> req.room, to |-> req.recipient,
                                                  amount |-> req.amount]})
                    ELSE transfers
    /\ UNCHANGED <<rooms, processedTx, verifying, payoutCalls, wallet, now>>

\* ------------------------------------------------------------- GET /api/rooms/:code
\* sanitizeRoom(room), as far as the state of the game goes.
GetRoomReply(code) ==
    IF rooms[code] = NoRoom THEN Reply(404, "Not found")
    ELSE [status |-> 200, room |-> [status |-> heap[rooms[code]].status,
                                    winner |-> heap[rooms[code]].winner,
                                    whiteTimeMs |-> heap[rooms[code]].whiteTimeMs,
                                    blackTimeMs |-> heap[rooms[code]].blackTimeMs]]

GetRoom(code) == UNCHANGED vars

\* ------------------------------------------------------------- GET /api/rooms/:code/payments
GetPaymentsReply(code) ==
    IF rooms[code] = NoRoom THEN Reply(404, "Not found")
    ELSE [status |-> 200, room |-> [status |-> heap[rooms[code]].status,
                                    confirmedPayments |-> heap[rooms[code]].confirmedPayments]]

GetPayments(code) == UNCHANGED vars

\* ------------------------------------------------------------- GET /api/rooms/:code/state
GetStateReply(code) ==
    IF rooms[code] = NoRoom THEN Reply(404, "Not found")
    ELSE LET t == updateTimer(heap[rooms[code]]).room
         IN  [status |-> 200, room |-> [status |-> t.status, winner |-> t.winner,
                                        whiteTimeMs |-> t.whiteTimeMs,
                                        blackTimeMs |-> t.blackTimeMs]]

\* GetState that ticks the clock of every room in the registry.
GetStateTicksAll(code) ==
    /\ rooms[code] # NoRoom
    /\ heap' = [r \in DOMAIN heap |->
                    IF \E c \in Codes : rooms[c] = r THEN updateTimer(heap[r]).room ELSE heap[r]]
    /\ CallPayout(rooms[code], updateTimer(heap[rooms[code]]).payout)
    /\ UNCHANGED <<rooms, processedTx, verifying, transfers, wallet, now>>

GetState(code) ==
    /\ rooms[code] # NoRoom
    /\ heap' = [heap EXCEPT ![rooms[code]] = updateTimer(@).room]
    /\ CallPayout(rooms[code], updateTimer(heap[rooms[code]]).payout)
    /\ UNCHANGED <<rooms, processedTx, verifying, transfers, wallet, now>>

\* ------------------------------------------------------------- POST /api/rooms/:code/move
pieceColor(piece) == IF piece = toUpperCase(piece) THEN "white" ELSE "black"

\* MoveReply without the status !== 'playing' return.
MoveReplyNoStatusCheck(code, playerId, from, to) ==
    LET r == rooms[code]
        t == updateTimer(heap[r]).room
    IN
    IF ~InBounds(from) THEN Reply(400, "From position out of bounds")
    ELSE IF ~InBounds(to) THEN Reply(400, "To position out of bounds")
    ELSE IF r = NoRoom THEN Reply(404, "Room not found")
    ELSE IF heap[r].winner # NoWinner THEN Reply(400, "Game already over")
    ELSE IF t.winner # NoWinner THEN Reply(200, "timeout")
    ELSE IF playerId + 1 \notin 1..Len(t.players) THEN Reply(400, "Invalid player")
    ELSE IF t.players[playerId + 1].color # t.currentTurn THEN Reply(400, "Not your turn")
    ELSE IF At(t.board, from) = "" THEN Reply(400, "No piece")
    ELSE IF pieceColor(At(t.board, from)) # t.players[playerId + 1].color
         THEN Reply(400, "Not your piece")
    ELSE IF toLowerCase(At(t.board, to)) = "k" THEN Reply(200, "gameOver")
    ELSE Reply(200, "moved")

\* MoveReply with the bounds checks moved behind the room lookup, the status
\* checks and the clock tick.
MoveReplyRoomFirst(code, playerId, from, to) ==
    LET r == rooms[code]
        t == updateTimer(heap[r]).room
    IN
    IF r = NoRoom THEN Reply(404, "Room not found")
    ELSE IF heap[r].status # "playing" THEN Reply(400, "Game not in progress")
    ELSE IF heap[r].winner # NoWinner THEN Reply(400, "Game already over")
    ELSE IF t.winner # NoWinner THEN Reply(200, "timeout")
    ELSE IF ~InBounds(from) THEN Reply(400, "From position out of bounds")
    ELSE IF ~InBounds(to) THEN Reply(400, "To position out of bounds")
    ELSE IF playerId + 1 \notin 1..Len(t.players) THEN Reply(400, "Invalid player")
    ELSE IF t.players[playerId + 1].color # t.currentTurn THEN Reply(400, "Not your turn")
    ELSE IF At(t.board, from) = "" THEN Reply(400, "No piece")
    ELSE IF pieceColor(At(t.board, from)) # t.players[playerId + 1].color
         THEN Reply(400, "Not your piece")
    ELSE IF toLowerCase(At(t.board, to)) = "k" THEN Reply(200, "gameOver")
    ELSE Reply(200, "moved")

\* MoveReply without the "No piece" and "Not your piece" returns.
MoveReplyNoPieceCheck(code, playerId, from, to) ==
    LET r == rooms[code]
        t == updateTimer(heap[r]).room
    IN
    IF ~InBounds(from) THEN Reply(400, "From position out of bounds")
    ELSE IF ~InBounds(to) THEN Reply(400, "To position out of bounds")
    ELSE IF r = NoRoom THEN Reply(404, "Room not found")
    ELSE IF heap[r].status # "playing" THEN Reply(400, "Game not in progress")
    ELSE IF heap[r].winner # NoWinner THEN Reply(400, "Game already over")
    ELSE IF t.winner # NoWinner THEN Reply(200, "timeout")
    ELSE IF playerId + 1 \notin 1..Len(t.players) THEN Reply(400, "Invalid player")
    ELSE IF t.players[playerId + 1].color # t.currentTurn THEN Reply(400, "Not your turn")
    ELSE IF toLowerCase(At(t.board, to)) = "k" THEN Reply(200, "gameOver")
    ELSE Reply(200, "moved")

\* MoveReply without the second room.winner !== null return, after the tick.
MoveReplyNoTimeoutCheck(code, playerId, from, to) ==
    LET r == rooms[code]
        t == updateTimer(heap[r]).room
    IN
    IF ~InBounds(from) THEN Reply(400, "From position out of bounds")
    ELSE IF ~InBounds(to) THEN Reply(400, "To position out of bounds")
    ELSE IF r = NoRoom THEN Reply(404, "Room not found")
    ELSE IF heap[r].status # "playing" THEN Reply(400, "Game not in progress")
    ELSE IF heap[r].winner # NoWinner THEN Reply(400, "Game already over")
    ELSE IF playerId + 1 \notin 1..Len(t.players) THEN Reply(400, "Invalid player")
    ELSE IF t.players[playerId + 1].color # t.currentTurn THEN Reply(400, "Not your turn")
    ELSE IF At(t.board, from) = "" THEN Reply(400, "No piece")
    ELSE IF pieceColor(At(t.board, from)) # t.players[playerId + 1].color
         THEN Reply(400, "Not your piece")
    ELSE IF toLowerCase(At(t.board, to)) = "k" THEN Reply(200, "gameOver")
    ELSE Reply(200, "moved")

\* The ladder of early returns of the move handler (lines 2136-2165).
MoveReply(code, playerId, from, to) ==
    LET r == rooms[code]
        t == updateTimer(heap[r]).room
    IN
    IF ~InBounds(from) THEN Reply(400, "From position out of bounds")
    ELSE IF ~InBounds(to) THEN Reply(400, "To position out of bounds")
    ELSE IF r = NoRoom THEN Reply(404, "Room not found")
    ELSE IF heap[r].status # "playing" THEN Reply(400, "Game not in progress")
    ELSE IF heap[r].winner # NoWinner THEN Reply(400, "Game already over")
    ELSE IF t.winner # NoWinner THEN Reply(200, "timeout")
    ELSE IF playerId + 1 \notin 1..Len(t.players) THEN Reply(400, "Invalid player")
    ELSE IF t.players[playerId + 1].color # t.currentTurn THEN Reply(400, "Not your turn")
    ELSE IF At(t.board, from) = "" THEN Reply(400, "No piece")
    ELSE IF pieceColor(At(t.board, from)) # t.players[playerId + 1].color
         THEN Reply(400, "Not your piece")
    ELSE IF toLowerCase(At(t.board, to)) = "k" THEN Reply(200, "gameOver")
    ELSE Reply(200, "moved")

\* Whether the handler got as far as updateTimer(room) (line 2152).
MoveTicks(code, playerId, from, to) ==
    MoveReply(code, playerId, from, to).msg \notin
        {"From position out of bounds", "To position out of bounds", "Room not found",
         "Game not in progress", "Game already over"}

\* ApplyMove that leaves the turn with the mover.
ApplyMoveKeepsTurn(room, playerId, from, to) ==
    LET piece == At(room.board, from)
        capturedKing == toLowerCase(At(room.board, to)) = "k"
        moved == [room EXCEPT !.board = SetAt(SetAt(@, to, piece), from, ""),
                              !.lastMove = <<from, to>>,
                              !.lastMoveTime = now]
    IN  IF capturedKing
        THEN [moved EXCEPT !.winner = playerId, !.status = "finished", !.finishedAt = now]
        ELSE moved

\* ApplyMove that records the winner of a king capture but leaves the room playing.
ApplyMoveKeepsPlaying(room, playerId, from, to) ==
    LET piece == At(room.board, from)
        capturedKing == toLowerCase(At(room.board, to)) = "k"
        moved == [room EXCEPT !.board = SetAt(SetAt(@, to, piece), from, ""),
                              !.lastMove = <<from, to>>,
                              !.lastMoveTime = now]
    IN  IF capturedKing
        THEN [moved EXCEPT !.winner = playerId]
        ELSE [moved EXCEPT !.currentTurn = IF @ = "white" THEN "black" ELSE "white"]

\* ApplyMove that ends the game only when the king taken is the opponent's.
ApplyMoveOpposingKingOnly(room, playerId, from, to) ==
    LET piece == At(room.board, from)
        capturedKing == /\ toLowerCase(At(room.board, to)) = "k"
                        /\ pieceColor(At(room.board, to)) # pieceColor(piece)
        moved == [room EXCEPT !.board = SetAt(SetAt(@, to, piece), from, ""),
                              !.lastMove = <<from, to>>,
                              !.lastMoveTime = now]
    IN  IF capturedKing
        THEN [moved EXCEPT !.winner = playerId, !.status = "finished", !.finishedAt = now]
        ELSE [moved EXCEPT !.currentTurn = IF @ = "white" THEN "black" ELSE "white"]

\* Lines 2167-2186 on the ticked room.
ApplyMove(room, playerId, from, to) ==
    LET piece == At(room.board, from)
        capturedKing == toLowerCase(At(room.board, to)) = "k"
        moved == [room EXCEPT !.board = SetAt(SetAt(@, to, piece), from, ""),
                              !.lastMove = <<from, to>>,
                              !.lastMoveTime = now]
    IN  IF capturedKing
        THEN [moved EXCEPT !.winner = playerId, !.status = "finished", !.finishedAt = now]
        ELSE [moved EXCEPT !.currentTurn = IF @ = "white" THEN "black" ELSE "white"]

Move(code, playerId, from, to) ==
    LET out == MoveReply(code, playerId, from, to)
        r == rooms[code]
    IN  /\ IF ~MoveTicks(code, playerId, from, to)
           THEN UNCHANGED <<heap, payoutCalls, paying>>
           ELSE IF out.msg \in {"gameOver", "moved"}
           THEN /\ heap' = [heap EXCEPT ![r] =
                                ApplyMove(updateTimer(@).room, playerId, from, to)]
                /\ CallPayout(r, out.msg = "gameOver")
           ELSE /\ heap' = [heap EXCEPT ![r] = updateTimer(@).room]
                /\ CallPayout(r, updateTimer(heap[r]).payout)
        /\ UNCHANGED <<rooms, processedTx, verifying, transfers, wallet, now>>

\* ------------------------------------------------------------- the cleanup interval
\* ExpiredAt that takes every waiting room for an empty one.
ExpiredAtAnyWaiting(room, time) ==
    \/ /\ room.status = "finished"
       /\ room.finishedAt # NoTime
       /\ time - room.finishedAt > FINISHED_RETENTION_MS
    \/ /\ room.status \in {"waiting_players", "waiting_payments"}
       /\ room.createdAt # NoTime
       /\ time - room.createdAt > WAITING_RETENTION_MS

\* The two conditions of the callback, which has read Date.now() as time.
ExpiredAt(room, time) ==
    \/ /\ room.status = "finished"
       /\ room.finishedAt # NoTime
       /\ time - room.finishedAt > FINISHED_RETENTION_MS
    \/ /\ room.status = "waiting_players"
       /\ room.createdAt # NoTime
       /\ time - room.createdAt > WAITING_RETENTION_MS

Expired(room) == ExpiredAt(room, now)

\* Sweep that also ticks the clock of every room.
SweepTicking ==
    /\ rooms' = [c \in Codes |->
                    IF rooms[c] # NoRoom /\ Expired(heap[rooms[c]]) THEN NoRoom ELSE rooms[c]]
    /\ heap' = [r \in DOMAIN heap |-> updateTimer(heap[r]).room]
    /\ UNCHANGED <<processedTx, verifying, paying, transfers, payoutCalls, wallet, now>>

Sweep ==
    /\ rooms' = [c \in Codes |->
                    IF rooms[c] # NoRoom /\ Expired(heap[rooms[c]]) THEN NoRoom ELSE rooms[c]]
    /\ UNCHANGED <<heap, processedTx, verifying, paying, transfers, payoutCalls, wallet, now>>

\* ------------------------------------------------------------- wall-clock time
Tick ==
    /\ now < StartTime + MaxTicks * TickMs
    /\ now' = now + TickMs
    /\ UNCHANGED <<rooms, heap, processedTx, verifying, paying, transfers, payoutCalls, wallet>>

\* One period of the cleanup interval: the time of the machine advances by
\* the period and the callback runs at the new time.
SweepPeriod ==
    /\ now < StartTime + MaxIdleTicks * TickMs
    /\ now' = now + TickMs
    /\ UNCHANGED <<heap, processedTx, verifying, paying, transfers, payoutCalls, wallet>>
    /\ rooms' = [c \in Codes |->
                    IF rooms[c] # NoRoom /\ ExpiredAt(heap[rooms[c]], now + TickMs)
                    THEN NoRoom ELSE rooms[c]]

\* Time passing while a game is on.
GameTick ==
    /\ \E c \in Codes : rooms[c] # NoRoom /\ heap[rooms[c]].status = "playing"
    /\ now < StartTime + MaxGameTicks * TickMs
    /\ now' = now + TickMs
    /\ UNCHANGED <<rooms, heap, processedTx, verifying, paying, transfers, payoutCalls, wallet>>

\* ------------------------------------------------------------- specifications
\* One room followed through its whole life: creation, join, payments, the
\* game with its clock, the payout and the sweep.
Next ==
    \/ \E c \in GameCodes, w \in CreatorWallets, t \in TokenAmounts :
          heap = <<>> /\ CreateRoom(c, w, t)
    \/ \E c \in GameCodes, w \in JoinWallets : JoinRoom(c, w)
    \/ \E c \in GameCodes, t \in Txs, w \in GamePayWallets : VerifyBegin(c, t, w)
    \/ \E req \in BagToSet(verifying), res \in LedgerResults : VerifyFinish(req, res)
    \/ \E c \in GameCodes : GetRoom(c)
    \/ \E c \in GameCodes : GetPayments(c)
    \/ \E c \in GameCodes : GetState(c)
    \/ \E c \in GameCodes, p \in PlayerIds, from \in FromSquares, to \in ToSquares :
          Move(c, p, from, to)
    \/ \E req \in BagToSet(paying), res \in PayoutResults : PayoutFinish(req, res)
    \/ Sweep
    \/ Tick

Spec == Init /\ [][Next]_vars

\* Several rooms in the registry, up to the start of the game: any code may
\* be drawn again, and any wallet may pay.
InitRegistry == Init /\ wallet = TRUE

NextRegistry ==
    \/ \E c \in Codes, w \in CreatorWallets, t \in TokenAmounts :
          Len(heap) < MaxRooms /\ CreateRoom(c, w, t)
    \/ \E c \in Codes, w \in JoinWallets : JoinRoom(c, w)
    \/ \E c \in Codes, t \in Txs, w \in PayWallets : VerifyBegin(c, t, w)
    \/ \E req \in BagToSet(verifying), res \in LedgerResults : VerifyFinish(req, res)

SpecRegistry == InitRegistry /\ [][NextRegistry]_vars

\* The first two moves of a game with every from and to on the board: the
\* room is created, joined and paid for, and a move is made from the initial
\* position and from the position after white's pawn went from (6,4) to (4,4).
\* The payments are verified one after the other.
OpeningBoards == {INIT_BOARD, SetAt(SetAt(INIT_BOARD, <<4, 4>>, "P"), <<6, 4>>, "")}

InitMatch == Init /\ wallet = TRUE

NextMatch ==
    \/ \E c \in GameCodes, t \in TokenAmounts : heap = <<>> /\ CreateRoom(c, "w1", t)
    \/ \E c \in GameCodes : JoinRoom(c, "w2")
    \/ /\ verifying = EmptyBag
       /\ \E c \in GameCodes, pay \in MatchPayments : VerifyBegin(c, pay[1], pay[2])
    \/ \E req \in BagToSet(verifying) : VerifyFinish(req, "ok")
    \/ /\ heap # <<>>
       /\ heap[1].board \in OpeningBoards
       /\ \E c \in GameCodes, p \in MatchPlayerIds, from \in AllSquares, to \in AllSquares :
             Move(c, p, from, to)
    \/ \E req \in BagToSet(paying), res \in PayoutResults : PayoutFinish(req, res)

SpecMatch == InitMatch /\ [][NextMatch]_vars

\* Games for every stake: the room is created with any token amount, joined
\* and paid for, played to a king capture and settled.
InitStakes == Init /\ wallet = TRUE

NextStakes ==
    \/ \E c \in GameCodes, t \in MatchTokenAmounts : heap = <<>> /\ CreateRoom(c, "w1", t)
    \/ \E c \in GameCodes : JoinRoom(c, "w2")
    \/ /\ verifying = EmptyBag
       /\ \E c \in GameCodes, pay \in MatchPayments : VerifyBegin(c, pay[1], pay[2])
    \/ \E req \in BagToSet(verifying) : VerifyFinish(req, "ok")
    \/ \E c \in GameCodes, p \in MatchPlayerIds, from \in FromSquares, to \in ToSquares :
          Move(c, p, from, to)
    \/ \E req \in BagToSet(paying), res \in PayoutResults : PayoutFinish(req, res)

SpecStakes == InitStakes /\ [][NextStakes]_vars

\* One room up to the start of the game, with the clock of the machine
\* running: creation, join and the payment verifications with every answer
\* of the ledger.
InitPayments == Init /\ wallet = TRUE

NextPayments ==
    \/ \E c \in GameCodes, w \in CreatorWallets, t \in TokenAmounts :
          heap = <<>> /\ CreateRoom(c, w, t)
    \/ \E c \in GameCodes, w \in JoinWallets : JoinRoom(c, w)
    \/ \E c \in GameCodes, t \in Txs, w \in GamePayWallets : VerifyBegin(c, t, w)
    \/ \E req \in BagToSet(verifying), res \in LedgerResults : VerifyFinish(req, res)
    \/ Tick

SpecPayments == InitPayments /\ [][NextPayments]_vars

\* One room from its creation to its removal, with the cleanup interval
\* running on schedule: the room may be left alone in any status for as many
\* periods as it takes.  The payments are verified one after the other.
InitExpiry == Init /\ wallet = TRUE

NextExpiry ==
    \/ \E c \in GameCodes, t \in TokenAmounts : heap = <<>> /\ CreateRoom(c, "w1", t)
    \/ \E c \in GameCodes : JoinRoom(c, "w2")
    \/ /\ verifying = EmptyBag
       /\ \E c \in GameCodes, pay \in MatchPayments : VerifyBegin(c, pay[1], pay[2])
    \/ \E req \in BagToSet(verifying) : VerifyFinish(req, "ok")
    \/ \E c \in GameCodes : GetState(c)
    \/ \E c \in GameCodes, p \in MatchPlayerIds, from \in FromSquares, to \in ToSquares :
          Move(c, p, from, to)
    \/ \E req \in BagToSet(paying), res \in PayoutResults : PayoutFinish(req, res)
    \/ SweepPeriod

SpecExpiry == InitExpiry /\ [][NextExpiry]_vars

\* Several rooms side by side, each through its whole life, on a server
\* that has no payout keypair: any code may be drawn again, and the payments
\* are verified one after the other.
InitRooms == Init /\ wallet = FALSE

NextRooms ==
    \/ \E c \in Codes, t \in TokenAmounts : Len(heap) < MaxRooms /\ CreateRoom(c, "w1", t)
    \/ \E c \in Codes : JoinRoom(c, "w2")
    \/ /\ verifying = EmptyBag
       /\ \E pay \in RoomsPayments : VerifyBegin(pay[1], pay[2], pay[3])
    \/ \E req \in BagToSet(verifying) : VerifyFinish(req, "ok")
    \/ \E c \in Codes : GetState(c)
    \/ \E c \in Codes, p \in MatchPlayerIds :
          \E from \in FromSquares \cap AllSquares, to \in ToSquares \cap AllSquares :
              Move(c, p, from, to)
    \/ Tick

SpecRooms == InitRooms /\ [][NextRooms]_vars

\* One game under the clock: the room is created, joined and paid for, and
\* from the start of the game time goes on and the clients keep polling GET
\* state, whatever moves are made in between.
InitClock == Init

NextClock ==
    \/ \E c \in GameCodes, t \in TokenAmounts : heap = <<>> /\ CreateRoom(c, "w1", t)
    \/ \E c \in GameCodes : JoinRoom(c, "w2")
    \/ /\ verifying = EmptyBag
       /\ \E c \in GameCodes, pay \in MatchPayments : VerifyBegin(c, pay[1], pay[2])
    \/ \E req \in BagToSet(verifying) : VerifyFinish(req, "ok")
    \/ \E c \in GameCodes : GetState(c)
    \/ \E c \in GameCodes, p \in MatchPlayerIds, from \in FromSquares, to \in ToSquares :
          Move(c, p, from, to)
    \/ \E req \in BagToSet(paying), res \in PayoutResults : PayoutFinish(req, res)
    \/ GameTick

SpecClock ==
    /\ InitClock /\ [][NextClock]_vars
    /\ WF_vars(GameTick)
    /\ WF_vars(\E c \in GameCodes : GetState(c))

\* ------------------------------------------------------------- properties
RoomIds == 1..Len(heap)

SlotsOf(r) == 1..Len(heap[r].players)

Waiting == {"waiting_players", "waiting_payments"}

GameFields(room) ==
    <<room.board, room.currentTurn, room.lastMove, room.whiteTimeMs, room.blackTimeMs,
      room.winner>>

\* the paid slots of all room objects
PaidSlots ==
    UNION { { <<r, i>> : i \in { j \in SlotsOf(r) : heap[r].players[j].paid } } : r \in RoomIds }

\* C1: handlePayout is invoked exactly once per room, in the step in which
\* its status becomes finished, and never again: in every state the number
\* of invocations for a room is 1 if the room is finished and 0 if it is not.
C1_SettledExactlyOnce ==
    \A r \in RoomIds : payoutCalls[r] = IF heap[r].status = "finished" THEN 1 ELSE 0

\* a room that finished on the clock with no move made, and time went on after it
C1_Witness ==
    \E r \in RoomIds :
        /\ heap[r].status = "finished" /\ heap[r].lastMove = <<>>
        /\ payoutCalls[r] = 1 /\ now > heap[r].finishedAt

\* C2: one transaction id never marks more than one payment slot as paid, in
\* one room or in two: there are never more paid slots than processed ids.
C2_OneSlotPerTx == Cardinality(PaidSlots) <= Cardinality(processedTx)

C4_NoTakeover ==
    [][\A r \in RoomIds : \A i \in SlotsOf(r) :
          heap[r].players[i].wallet # NoWallet
             => heap'[r].players[i].wallet = heap[r].players[i].wallet]_vars

\* C4 as amended: an accepted payment marks exactly one slot paid and binds it
\* to the paying identity; that slot is the unpaid slot already bound to the
\* paying identity, or, when no unpaid slot is bound to it, the first unpaid
\* slot whatever identity it holds; and no other slot holds the paying identity.
C4_PaymentBinding ==
    [][\A r \in RoomIds : \A i \in SlotsOf(r) :
          (~heap[r].players[i].paid /\ heap'[r].players[i].paid) =>
             LET old == heap[r].players
                 w == heap'[r].players[i].wallet
             IN  /\ isValidWallet(w)
                 /\ \/ old[i].wallet = w
                    \/ /\ \A j \in SlotsOf(r) : ~(old[j].wallet = w /\ ~old[j].paid)
                       /\ \A j \in 1..(i - 1) : old[j].paid
                 /\ \A j \in SlotsOf(r) \ {i} :
                       old[j].wallet # w /\ heap'[r].players[j] = old[j]]_vars

\* the joiner's slot is paid and bound to a wallet that never joined a room
C4_Witness ==
    \E r \in RoomIds :
        /\ Len(heap[r].players) = 2
        /\ heap[r].players[2].paid /\ heap[r].players[2].wallet = "w3"

\* C5: the two player slots of a room never hold the same identity.
C5_DistinctIdentities ==
    \A r \in RoomIds :
        Len(heap[r].players) = 2 => heap[r].players[1].wallet # heap[r].players[2].wallet

\* a player is paid while a second verification by the same identity for the
\* same room, begun before the first was credited, is still in flight
C5_Witness ==
    \E req \in BagToSet(verifying) :
        /\ Len(heap[req.room].players) = 2
        /\ \E i \in SlotsOf(req.room) :
              heap[req.room].players[i].paid /\ heap[req.room].players[i].wallet = req.wallet
        /\ \E i \in SlotsOf(req.room) : ~heap[req.room].players[i].paid

\* C6: status is playing or finished only if the room has exactly two
\* players, both paid, and confirmedPayments = 2.
C6_PlayingOnlyWhenPaid ==
    \A r \in RoomIds :
        heap[r].status \in {"playing", "finished"} =>
            /\ Len(heap[r].players) = 2
            /\ \A i \in SlotsOf(r) : heap[r].players[i].paid
            /\ heap[r].confirmedPayments = 2

\* a finished room, with its two confirmed payments
C6_Witness ==
    \E r \in RoomIds : heap[r].status = "finished" /\ heap[r].confirmedPayments = 2

\* C7: a move request on a room that is not playing is rejected with a 400
\* before the clock is ticked; no step that changes anything of a room that
\* is not playing is a move request; and board, currentTurn, lastMove, the
\* two clocks and winner change only in a step taken while the room is playing.
C7_MoveOnlyWhilePlaying ==
    /\ [](\A c \in GameCodes, p \in PlayerIds, from \in FromSquares, to \in ToSquares :
            (rooms[c] # NoRoom /\ heap[rooms[c]].status # "playing") =>
                /\ MoveReply(c, p, from, to).status = 400
                /\ ~MoveTicks(c, p, from, to))
    /\ [][\A r \in RoomIds :
            /\ GameFields(heap'[r]) # GameFields(heap[r]) => heap[r].status = "playing"
            /\ (heap'[r] # heap[r] /\ heap[r].status # "playing") =>
                  ~\E p \in PlayerIds, from \in FromSquares, to \in ToSquares :
                        Move(heap[r].code, p, from, to)]_vars

\* a room whose board was changed by a move while it was playing and which
\* has since finished on black's clock
C7_Witness ==
    \E r \in RoomIds :
        /\ heap[r].status = "finished" /\ heap[r].board # INIT_BOARD
        /\ heap[r].blackTimeMs = 0

\* C8: confirmedPayments <= number of players <= 2 in every state.
C8_PaymentsWithinPlayers ==
    \A r \in RoomIds :
        heap[r].confirmedPayments <= Len(heap[r].players) /\ Len(heap[r].players) <= 2

\* the only player of a room is paid and a further verification for the
\* room is in flight
C8_Witness ==
    \E req \in BagToSet(verifying) :
        Len(heap[req.room].players) = 1 /\ heap[req.room].confirmedPayments = 1

KingCaptured(a, b) ==
    /\ b.board # a.board
    /\ toLowerCase(At(a.board, b.lastMove[2])) = "k"
    /\ b.winner + 1 \in 1..Len(a.players)
    /\ a.players[b.winner + 1].color = a.currentTurn

ClockExpired(a, b) ==
    /\ b.board = a.board
    /\ IF a.currentTurn = "white"
       THEN b.whiteTimeMs = 0 /\ b.winner = 1
       ELSE b.blackTimeMs = 0 /\ b.winner = 0

\* C9: a room starts in waiting_players and its status changes only from
\* waiting_players to waiting_payments (a second player is added), from
\* waiting_payments to playing (confirmedPayments goes from 1 to 2) and from
\* playing to finished (a king is captured or the clock of the side on turn
\* reaches 0).
C9_StatusForwardOnly ==
    [][/\ Len(heap') > Len(heap) => heap'[Len(heap')].status = "waiting_players"
       /\ \A r \in RoomIds :
            LET a == heap[r]
                b == heap'[r]
            IN  a.status # b.status =>
                  \/ /\ a.status = "waiting_players" /\ b.status = "waiting_payments"
                     /\ Len(a.players) = 1 /\ Len(b.players) = 2
                  \/ /\ a.status = "waiting_payments" /\ b.status = "playing"
                     /\ a.confirmedPayments = 1 /\ b.confirmedPayments = 2
                  \/ /\ a.status = "playing" /\ b.status = "finished"
                     /\ (KingCaptured(a, b) \/ ClockExpired(a, b))]_vars

\* a room that went all the way to finished by a king capture
C9_Witness ==
    \E r \in RoomIds :
        /\ heap[r].status = "finished" /\ heap[r].lastMove # <<>>
        /\ heap[r].whiteTimeMs > 0 /\ heap[r].blackTimeMs > 0

\* C10: winner is set exactly when status is finished and finishedAt is set,
\* and once winner is set no step changes winner or finishedAt.
C10_WinnerSetOnce ==
    /\ [](\A r \in RoomIds :
            (heap[r].winner # NoWinner)
               <=> (heap[r].status = "finished" /\ heap[r].finishedAt # NoTime))
    /\ [][\A r \in RoomIds :
            heap[r].winner # NoWinner =>
                /\ heap'[r].winner = heap[r].winner
                /\ heap'[r].finishedAt = heap[r].finishedAt]_vars

\* a room won by white's king capture whose clock has been read again later
C10_Witness ==
    \E r \in RoomIds :
        /\ heap[r].winner = 0 /\ heap[r].whiteTimeMs > 0 /\ heap[r].blackTimeMs > 0
        /\ now > heap[r].finishedAt

OtherTurn(turn) == IF turn = "white" THEN "black" ELSE "white"

\* the squares that hold a piece of the side on turn: an accepted move starts
\* from one of them
OwnSquares(room) ==
    {sq \in AllSquares : At(room.board, sq) # "" /\ pieceColor(At(room.board, sq)) = room.currentTurn}

\* a move request that passes every check of the handler
MoveAccepted(c, p, from, to) == MoveReply(c, p, from, to).msg \in {"gameOver", "moved"}

\* C11 as claimed: an accepted move whose destination square holds a king
\* sets, in one step, winner to the moving player's id, status to finished and
\* finishedAt to the current time, and leaves the moved piece on the
\* destination square and the source square empty.
C11_KingCaptureTerminal ==
    [][\A r \in RoomIds :
        (heap'[r] # heap[r] /\ heap[r].status = "playing" /\ rooms[heap[r].code] = r) =>
        LET ticked == updateTimer(heap[r]).room
        IN
        \A p \in PlayerIds, from \in FromSquares, to \in ToSquares :
          (/\ InBounds(from) /\ InBounds(to)
           /\ toLowerCase(At(heap[r].board, to)) = "k"
           /\ from \in OwnSquares(heap[r])
           /\ heap'[r] = ApplyMove(ticked, p, from, to)
           /\ MoveAccepted(heap[r].code, p, from, to)) =>
              /\ heap'[r].winner = p
              /\ heap'[r].status = "finished"
              /\ heap'[r].finishedAt = now
              /\ At(heap'[r].board, to) = At(heap[r].board, from)
              /\ At(heap'[r].board, from) = ""]_vars

\* C11 as amended: an accepted move whose destination square holds a king
\* sets, in one step, winner to the moving player's id, status to finished and
\* finishedAt to the current time; the source square is empty afterwards, and
\* the moved piece is on the destination square when the destination is not
\* the source square (a king moved onto its own square is removed, and its
\* mover wins).
C11_KingCapture ==
    [][\A r \in RoomIds :
        (heap'[r] # heap[r] /\ heap[r].status = "playing" /\ rooms[heap[r].code] = r) =>
        LET ticked == updateTimer(heap[r]).room
        IN
        \A p \in PlayerIds, from \in FromSquares, to \in ToSquares :
          (/\ InBounds(from) /\ InBounds(to)
           /\ toLowerCase(At(heap[r].board, to)) = "k"
           /\ from \in OwnSquares(heap[r])
           /\ heap'[r] = ApplyMove(ticked, p, from, to)
           /\ MoveAccepted(heap[r].code, p, from, to)) =>
              /\ heap'[r].winner = p
              /\ heap'[r].status = "finished"
              /\ heap'[r].finishedAt = now
              /\ At(heap'[r].board, from) = ""
              /\ to # from => At(heap'[r].board, to) = At(heap[r].board, from)]_vars

\* black's king was moved onto its own square: the square is empty and black won
C11_Witness ==
    \E r \in RoomIds :
        /\ heap[r].status = "finished" /\ heap[r].winner = 1
        /\ heap[r].lastMove = << <<0, 4>>, <<0, 4>> >>
        /\ At(heap[r].board, <<0, 4>>) = ""

\* C12 as claimed: after an accepted move whose destination does not hold a
\* king, for every from and to on the board, the destination square holds the
\* piece that was on the source square, the source square is empty, every
\* other square is unchanged, lastMove is {from, to}, currentTurn is flipped
\* and status stays playing.
C12_MoveEffect ==
    [][\A r \in RoomIds :
        (heap'[r] # heap[r] /\ heap[r].status = "playing" /\ rooms[heap[r].code] = r) =>
        LET ticked == updateTimer(heap[r]).room
            sources == OwnSquares(heap[r])
        IN
        \A p \in MatchPlayerIds, from \in sources, to \in AllSquares :
          (/\ toLowerCase(At(heap[r].board, to)) # "k"
           /\ heap'[r] = ApplyMove(ticked, p, from, to)
           /\ MoveAccepted(heap[r].code, p, from, to)) =>
              /\ At(heap'[r].board, to) = At(heap[r].board, from)
              /\ At(heap'[r].board, from) = ""
              /\ \A sq \in AllSquares \ {from, to} : At(heap'[r].board, sq) = At(heap[r].board, sq)
              /\ heap'[r].lastMove = <<from, to>>
              /\ heap'[r].currentTurn = OtherTurn(heap[r].currentTurn)
              /\ heap'[r].status = "playing"]_vars

\* C12 as amended: after an accepted move whose destination does not hold a
\* king, for every from and to on the board, the source square is empty, the
\* destination square holds the piece that was on the source square when the
\* destination is not the source square (a piece moved onto its own square is
\* removed), every other square is unchanged, lastMove is {from, to},
\* currentTurn is flipped and status stays playing.
C12_MoveEffectDistinct ==
    [][\A r \in RoomIds :
        (heap'[r] # heap[r] /\ heap[r].status = "playing" /\ rooms[heap[r].code] = r) =>
        LET ticked == updateTimer(heap[r]).room
            sources == OwnSquares(heap[r])
        IN
        \A p \in MatchPlayerIds, from \in sources, to \in AllSquares :
          (/\ toLowerCase(At(heap[r].board, to)) # "k"
           /\ heap'[r] = ApplyMove(ticked, p, from, to)
           /\ MoveAccepted(heap[r].code, p, from, to)) =>
              /\ At(heap'[r].board, from) = ""
              /\ to # from => At(heap'[r].board, to) = At(heap[r].board, from)
              /\ \A sq \in AllSquares \ {from, to} : At(heap'[r].board, sq) = At(heap[r].board, sq)
              /\ heap'[r].lastMove = <<from, to>>
              /\ heap'[r].currentTurn = OtherTurn(heap[r].currentTurn)
              /\ heap'[r].status = "playing"]_vars

\* black took the pawn on (4,4) with the rook from (0,0): a capture that is
\* no chess move, after which white is on turn
C12_Witness ==
    \E r \in RoomIds :
        /\ heap[r].status = "playing" /\ heap[r].currentTurn = "white"
        /\ heap[r].lastMove = << <<0, 0>>, <<4, 4>> >>
        /\ At(heap[r].board, <<4, 4>>) = "r" /\ At(heap[r].board, <<0, 0>>) = ""

\* the remaining time of the side on turn
TimeOnTurn(room) == IF room.currentTurn = "white" THEN room.whiteTimeMs ELSE room.blackTimeMs

\* the side on turn of a playing room has used up its remaining time
ClockRunsOut(room) ==
    /\ room.status = "playing"
    /\ room.lastMoveTime # NoTime
    /\ now - room.lastMoveTime >= TimeOnTurn(room)

TimeOffTurn(room) == IF room.currentTurn = "white" THEN room.blackTimeMs ELSE room.whiteTimeMs

\* room b has the clocks of room a after the side on turn of a was charged the
\* time since a.lastMoveTime
Charged(a, b) ==
    LET N == now - a.lastMoveTime
    IN  /\ b.lastMoveTime = now
        /\ IF a.currentTurn = "white"
           THEN b.whiteTimeMs = Max(0, a.whiteTimeMs - N) /\ b.blackTimeMs = a.blackTimeMs
           ELSE b.blackTimeMs = Max(0, a.blackTimeMs - N) /\ b.whiteTimeMs = a.whiteTimeMs

\* what get-state reports of a playing room: the clocks after the charge
StateShowsCharge(c) ==
    LET a == heap[rooms[c]]
        N == now - a.lastMoveTime
        shown == GetStateReply(c).room
    IN  IF a.currentTurn = "white"
        THEN shown.whiteTimeMs = Max(0, a.whiteTimeMs - N) /\ shown.blackTimeMs = a.blackTimeMs
        ELSE shown.blackTimeMs = Max(0, a.blackTimeMs - N) /\ shown.whiteTimeMs = a.whiteTimeMs

OpponentId(room) == IF room.currentTurn = "white" THEN 1 ELSE 0

\* C15: when a clock tick brings the remaining time of the side on turn to 0,
\* then in that same step winner is set to the other side's player id (white
\* runs out: 1, black runs out: 0), status becomes finished and finishedAt is
\* stamped; a tick that leaves the side on turn with more than 0 changes
\* neither winner nor status.
C15_TimeoutWinner ==
    /\ [](\A r \in RoomIds : heap[r].status = "playing" =>
            LET t == updateTimer(heap[r]).room
            IN  IF ClockRunsOut(heap[r])
                THEN /\ TimeOnTurn(t) = 0
                     /\ t.winner = OpponentId(heap[r])
                     /\ t.status = "finished"
                     /\ t.finishedAt = now
                ELSE /\ TimeOnTurn(t) > 0
                     /\ t.winner = NoWinner
                     /\ t.status = "playing"
                     /\ t.finishedAt = NoTime)
    /\ [][\A r \in RoomIds : (heap'[r] # heap[r] /\ heap[r].status = "playing") =>
            LET a == heap[r]
                b == heap'[r]
                left == IF a.currentTurn = "white" THEN b.whiteTimeMs ELSE b.blackTimeMs
            IN  /\ left = 0 =>
                      /\ b.winner = OpponentId(a)
                      /\ b.status = "finished"
                      /\ b.finishedAt = now
                /\ (left > 0 /\ b.board = a.board) =>
                      /\ b.winner = a.winner
                      /\ b.status = a.status]_vars

\* black ran out of time after white had moved: white, player 0, has won
C15_Witness ==
    \E r \in RoomIds :
        /\ heap[r].status = "finished" /\ heap[r].winner = 0
        /\ heap[r].blackTimeMs = 0 /\ heap[r].whiteTimeMs > 0
        /\ heap[r].currentTurn = "black"

\* C16 as claimed: once the side on turn of a playing room has used up its
\* remaining time, every read of that room (get room, get state, get
\* payments) reports status finished, and the opposite side as winner.
C16_ReadsReportTimeout ==
    \A c \in GameCodes : (rooms[c] # NoRoom /\ ClockRunsOut(heap[rooms[c]])) =>
        /\ GetStateReply(c).room.status = "finished"
        /\ GetStateReply(c).room.winner = OpponentId(heap[rooms[c]])
        /\ GetRoomReply(c).room.status = "finished"
        /\ GetRoomReply(c).room.winner = OpponentId(heap[rooms[c]])
        /\ GetPaymentsReply(c).room.status = "finished"

ClockFields(room) == <<room.whiteTimeMs, room.blackTimeMs, room.status, room.winner>>

\* C17: the clocks, status and winner of a playing room change only inside a
\* get-state or move request: a step in which time passes, the sweep removes
\* rooms or a payment verification proceeds leaves them unchanged, get room
\* and get payments report them as stored, and a room whose clock has run out
\* is playing until such a request.
C17_LazyTick ==
    /\ [](\A c \in GameCodes : rooms[c] # NoRoom =>
            /\ GetRoomReply(c).room.status = heap[rooms[c]].status
            /\ GetRoomReply(c).room.winner = heap[rooms[c]].winner
            /\ GetPaymentsReply(c).room.status = heap[rooms[c]].status)
    /\ [][\A r \in RoomIds :
            (heap[r].status = "playing" /\ ClockFields(heap'[r]) # ClockFields(heap[r])) =>
                /\ now' = now /\ rooms' = rooms
                /\ verifying' = verifying /\ processedTx' = processedTx
                /\ rooms[heap[r].code] = r
                /\ \/ GetState(heap[r].code)
                   \/ \E p \in PlayerIds, from \in FromSquares, to \in ToSquares :
                         Move(heap[r].code, p, from, to)]_vars

\* a playing room whose side on turn ran out of time a sweep period ago and
\* which nothing has asked for since
C17_Witness ==
    \E r \in RoomIds :
        /\ heap[r].status = "playing"
        /\ now - heap[r].lastMoveTime >= TimeOnTurn(heap[r]) + TickMs

\* C18: for every tokenAmount T and the commission rate of 10%, the payout
\* computed at settlement is floor(18*T/10): it is what the suspended payout
\* holds, what the transfer carries in the token's smallest unit and what the
\* room records as payoutAmount; for T = 500 it is 900.
C18_PayoutAmount ==
    /\ \A req \in BagToSet(paying) :
          /\ req.payoutTokens = (18 * heap[req.room].tokenAmount) \div 10
          /\ heap[req.room].tokenAmount = 500 => req.payoutTokens = 900
    /\ \A tr \in BagToSet(transfers) :
          tr.amount = ((18 * heap[tr.room].tokenAmount) \div 10) * 1000000
    /\ \A r \in RoomIds :
          heap[r].payoutAmount # NoAmount =>
              /\ heap[r].payoutAmount = (18 * heap[r].tokenAmount) \div 10
              /\ heap[r].tokenAmount = 500 => heap[r].payoutAmount = 900

\* a settled room with a stake of 7 tokens: 12.6 is rounded down to 12
C18_Witness ==
    \E r \in RoomIds :
        /\ heap[r].tokenAmount = 7 /\ heap[r].payoutAmount = 12
        /\ \E tr \in BagToSet(transfers) : tr.room = r /\ tr.amount = 12000000

\* the transfers for room object r that were submitted or are being prepared
PayoutsOf(r) ==
    {tr \in BagToSet(transfers) : tr.room = r} \cup {req \in BagToSet(paying) : req.room = r}

\* C19: the single transfer submitted at settlement names as recipient the
\* identity bound to the winning player's slot when the room finished: there
\* is at most one transfer per room, its room is finished, its recipient is
\* the winner's identity and not the loser's, and the identities of a
\* finished room never change.
C19_PayoutToWinner ==
    /\ [](\A r \in RoomIds :
            /\ Cardinality(PayoutsOf(r)) <= 1
            /\ \A tr \in BagToSet(transfers) : tr.room = r => CopiesIn(tr, transfers) = 1
            /\ \A req \in BagToSet(paying) :
                  req.room = r =>
                      /\ CopiesIn(req, paying) = 1
                      /\ heap[r].status = "finished"
                      /\ req.recipient = heap[r].players[heap[r].winner + 1].wallet
            /\ \A tr \in BagToSet(transfers) :
                  tr.room = r =>
                      /\ heap[r].status = "finished"
                      /\ tr.to = heap[r].players[heap[r].winner + 1].wallet
                      /\ tr.to # heap[r].players[2 - heap[r].winner].wallet)
    /\ [][\A r \in RoomIds :
            heap[r].status = "finished" => heap'[r].players = heap[r].players]_vars

\* black won and the transfer to black's identity was accepted by the ledger
C19_Witness ==
    \E tr \in BagToSet(transfers) :
        /\ heap[tr.room].winner = 1
        /\ tr.to = heap[tr.room].players[2].wallet
        /\ heap[tr.room].payoutTx # ""

\* C20: a room has at most one of payoutTx and payoutError set; each of them
\* is written at most once and never changed afterwards; payoutAmount and
\* payoutTime are set exactly when payoutTx is set.
C20_PayoutFields ==
    /\ [](\A r \in RoomIds :
            /\ ~(heap[r].payoutTx # "" /\ heap[r].payoutError # "")
            /\ heap[r].payoutTx # "" <=> heap[r].payoutAmount # NoAmount
            /\ heap[r].payoutTx # "" <=> heap[r].payoutTime # NoTime)
    /\ [][\A r \in RoomIds :
            /\ heap[r].payoutTx # "" =>
                  /\ heap'[r].payoutTx = heap[r].payoutTx
                  /\ heap'[r].payoutAmount = heap[r].payoutAmount
                  /\ heap'[r].payoutTime = heap[r].payoutTime
            /\ heap[r].payoutError # "" => heap'[r].payoutError = heap[r].payoutError]_vars

\* a room whose payout failed, read again after it was swept from the registry
C20_Witness ==
    \E r \in RoomIds :
        /\ heap[r].payoutError # "" /\ heap[r].payoutTx = ""
        /\ rooms[heap[r].code] = NoRoom

\* the payouts for room object r that are suspended at the ledger
PendingPayouts(r) == {req \in BagToSet(paying) : req.room = r}

Settled(room) == room.payoutTx # "" \/ room.payoutError # ""

\* C21: a payout that fails records payoutError and is never tried again: a
\* room has at most one payout at the ledger over its whole life.  While a
\* payout is suspended the room is not settled, a settled room has none
\* suspended and was paid out by one call, a suspended payout ends only in the
\* step that writes payoutTx or payoutError, and after payoutError is written
\* no payout for the room is started and no transfer for it is accepted.
C21_NoPayoutRetry ==
    /\ [](\A r \in RoomIds :
            /\ Cardinality(PendingPayouts(r)) <= 1
            /\ \A req \in PendingPayouts(r) : CopiesIn(req, paying) = 1 /\ ~Settled(heap[r])
            /\ Settled(heap[r]) => payoutCalls[r] = 1
            /\ heap[r].payoutError # "" =>
                  \A tr \in BagToSet(transfers) : tr.room # r)
    /\ [][\A r \in RoomIds :
            /\ (PendingPayouts(r) # {} /\ PendingPayouts(r)' = {}) => Settled(heap'[r])
            /\ (~Settled(heap[r]) /\ Settled(heap'[r])) => PendingPayouts(r) # {}
            /\ heap[r].payoutError # "" =>
                  /\ PendingPayouts(r)' = {}
                  /\ payoutCalls'[r] = payoutCalls[r]
                  /\ heap'[r].payoutError = heap[r].payoutError
                  /\ heap'[r].payoutTx = ""]_vars

\* a room whose payout failed, still in the registry a sweep period later
C21_Witness ==
    \E r \in RoomIds :
        /\ heap[r].payoutError # "" /\ rooms[heap[r].code] = r
        /\ now > heap[r].finishedAt

\* the answers of connection.getTransaction that make the verification fail
FailedLookups == {"throws", "notfound", "failed"}

\* C22: a verification that fails because the ledger lookup throws, finds
\* no transaction or finds a failed one changes no room and not the
\* processed set, and every verification request is answered before the
\* lookup as it was before the failure: the same transaction id can be
\* verified again.
C22_FailedVerifyNoEffect ==
    [][\A req \in BagToSet(verifying) :
          (CopiesIn(req, verifying') < CopiesIn(req, verifying)
             /\ \E res \in FailedLookups : VerifyFinish(req, res)) =>
                /\ heap' = heap /\ processedTx' = processedTx /\ rooms' = rooms
                /\ req.tx \notin processedTx =>
                      /\ req.tx \notin processedTx'
                      /\ VerifyCheck(heap[req.room].code, req.tx, req.wallet)'
                            = VerifyCheck(heap[req.room].code, req.tx, req.wallet)]_vars

\* the creator has paid and the joiner's verification, with a transaction
\* id that is not processed, is suspended at the ledger lookup
C22_Witness ==
    \E req \in BagToSet(verifying) :
        /\ Len(heap[req.room].players) = 2 /\ heap[req.room].confirmedPayments = 1
        /\ req.tx \notin processedTx
        /\ heap[req.room].players[2].wallet = req.wallet

Started == {"playing", "finished"}

\* C23: no payment is credited to a room that is playing or finished.  A
\* verification request for such a room is rejected before the ledger
\* lookup; a verification that passed the status check and was suspended
\* while the room started is rejected when the ledger answers; and no step
\* changes the slots or confirmedPayments of a started room or records a
\* transaction id for it.
C23_NoCreditAfterStart ==
    /\ [](/\ \A c \in GameCodes, t \in Txs, w \in GamePayWallets :
                (rooms[c] # NoRoom /\ heap[rooms[c]].status \in Started) =>
                    VerifyCheck(c, t, w).status = 400
          /\ \A req \in BagToSet(verifying) :
                heap[req.room].status \in Started =>
                    VerifyReply(heap[req.room], req.wallet, "ok").status = 400)
    /\ [][\A r \in RoomIds :
            heap[r].status \in Started =>
                /\ heap'[r].players = heap[r].players
                /\ heap'[r].confirmedPayments = heap[r].confirmedPayments
                /\ (\A req \in BagToSet(verifying) : req.room = r)
                      => processedTx' = processedTx]_vars

\* the game has started while a verification that passed the status check
\* is still suspended at the ledger lookup
C23_Witness ==
    \E req \in BagToSet(verifying) :
        /\ heap[req.room].status = "playing"
        /\ rooms[heap[req.room].code] = req.room

\* C24: lastMoveTime is null and both clocks hold the full budget as long as
\* the room waits for players or payments, and the step that sets status to
\* playing is the end of a payment verification that takes confirmedPayments
\* from 1 to 2 and stamps lastMoveTime with the time of that step.
C24_ClockStartsWithGame ==
    /\ [](\A r \in RoomIds :
            heap[r].status \in Waiting =>
                /\ heap[r].lastMoveTime = NoTime
                /\ heap[r].whiteTimeMs = GAME_TIME_MS
                /\ heap[r].blackTimeMs = GAME_TIME_MS)
    /\ [][\A r \in RoomIds :
            (heap[r].status \in Waiting /\ heap'[r].status = "playing") =>
                /\ heap'[r].lastMoveTime = now /\ now' = now
                /\ heap[r].confirmedPayments = 1 /\ heap'[r].confirmedPayments = 2
                /\ BagCardinality(verifying') = BagCardinality(verifying) - 1
                /\ heap'[r].whiteTimeMs = GAME_TIME_MS
                /\ heap'[r].blackTimeMs = GAME_TIME_MS]_vars

\* a game that started two sweep periods after its room was created
C24_Witness ==
    \E r \in RoomIds :
        /\ heap[r].status = "playing"
        /\ heap[r].lastMoveTime = heap[r].createdAt + 2 * TickMs

WalletsOf(room) == {room.players[i].wallet : i \in 1..Len(room.players)}

\* C25: a join request is answered 400 whenever the room is playing or
\* finished, has two players already or holds the joining identity in a
\* slot, and it leaves the room as it was: a player is added only to a room
\* that waits for players, has one player and does not hold that identity.
C25_JoinRejected ==
    /\ [](\A c \in GameCodes, w \in JoinWallets :
            (/\ rooms[c] # NoRoom
             /\ \/ heap[rooms[c]].status \in Started
                \/ Len(heap[rooms[c]].players) >= 2
                \/ w \in WalletsOf(heap[rooms[c]])) =>
                    JoinReply(c, w).status = 400)
    /\ [][\A r \in RoomIds :
            Len(heap'[r].players) # Len(heap[r].players) =>
                /\ heap[r].status = "waiting_players"
                /\ Len(heap[r].players) = 1 /\ Len(heap'[r].players) = 2
                /\ heap'[r].players[1] = heap[r].players[1]
                /\ heap'[r].players[2].wallet \notin WalletsOf(heap[r])]_vars

\* a room that waits for players and whose only slot was paid for, and so
\* bound, by an identity that may ask to join
C25_Witness ==
    \E r \in RoomIds :
        /\ rooms[heap[r].code] = r /\ heap[r].status = "waiting_players"
        /\ heap[r].players[1].paid /\ heap[r].players[1].wallet = "w2"

\* identity w is bound to a paid slot of the room
BoundAndPaid(room, w) ==
    \E i \in 1..Len(room.players) : room.players[i].wallet = w /\ room.players[i].paid

\* C26: a verification whose paying identity is bound to a paid slot of the
\* room is rejected with a 400, whatever transaction id it carries: before
\* the ledger lookup when the slot is paid by then, and after it when the
\* slot was paid while the request was suspended.  The step that ends such a
\* request changes no room and not the processed set, and a slot is marked
\* paid only for an identity that was not bound to a paid slot of the room.
C26_PaidIdentityRejected ==
    /\ [](/\ \A c \in GameCodes, t \in Txs, w \in GamePayWallets :
                (rooms[c] # NoRoom /\ BoundAndPaid(heap[rooms[c]], w)) =>
                    VerifyCheck(c, t, w).status = 400
          /\ \A req \in BagToSet(verifying) :
                BoundAndPaid(heap[req.room], req.wallet) =>
                    VerifyReply(heap[req.room], req.wallet, "ok").status = 400)
    /\ [][/\ \A req \in BagToSet(verifying) :
                (/\ CopiesIn(req, verifying') < CopiesIn(req, verifying)
                 /\ BoundAndPaid(heap[req.room], req.wallet)) =>
                     heap' = heap /\ processedTx' = processedTx
          /\ \A r \in RoomIds : \A i \in SlotsOf(r) :
                (~heap[r].players[i].paid /\ heap'[r].players[i].paid) =>
                    ~BoundAndPaid(heap[r], heap'[r].players[i].wallet)]_vars

\* the creator's slot is paid, the joiner's is not, and a second verification
\* by the creator's identity with a transaction id that is not processed is
\* suspended at the ledger lookup
C26_Witness ==
    \E req \in BagToSet(verifying) :
        /\ Len(heap[req.room].players) = 2
        /\ heap[req.room].players[1].paid /\ heap[req.room].players[1].wallet = req.wallet
        /\ ~heap[req.room].players[2].paid
        /\ req.tx \notin processedTx

\* C27: the sweep removes a room from the registry only if the room is
\* finished and finishedAt is more than 10 minutes before the time of the
\* sweep, or the room waits for players and createdAt is more than 30 minutes
\* before it; a room that waits for payments or is playing is never removed,
\* and the sweep changes no room object.
C27_SweepConditions ==
    [][\A c \in Codes :
          (rooms[c] # NoRoom /\ rooms'[c] = NoRoom) =>
              LET room == heap[rooms[c]] IN
              /\ heap' = heap
              /\ room.status \notin {"waiting_payments", "playing"}
              /\ \/ room.status = "finished" /\ now' - room.finishedAt > 10 * 60 * 1000
                 \/ room.status = "waiting_players"
                       /\ now' - room.createdAt > 30 * 60 * 1000]_vars

\* a room that nobody joined, removed when it was more than 30 minutes old
C27_Witness ==
    \E r \in RoomIds :
        /\ heap[r].status = "waiting_players" /\ rooms[heap[r].code] = NoRoom
        /\ now - heap[r].createdAt > 30 * 60 * 1000

\* C28: every room is removed from the registry once it has been idle long
\* enough, the sweep running every period: after each sweep the registry
\* holds no finished room whose finishedAt is more than the retention window
\* back, and no room still waiting for players or for payments whose
\* createdAt is more than the longer window back.
C28_IdleRoomsRemoved ==
    \A c \in Codes :
        rooms[c] # NoRoom =>
            LET room == heap[rooms[c]] IN
            /\ room.status = "finished" => now - room.finishedAt <= FINISHED_RETENTION_MS
            /\ room.status \in Waiting => now - room.createdAt <= WAITING_RETENTION_MS

\* C29: the sweep never removes a room while a payment verification for it is
\* suspended at the ledger lookup, and no payment is credited (a slot marked
\* paid, confirmedPayments raised, a transaction id recorded) to a room that
\* is no longer in the registry.
C29_NoCreditToRemovedRoom ==
    [][\A r \in RoomIds :
          /\ (rooms[heap[r].code] = r /\ rooms'[heap[r].code] = NoRoom) =>
                \A req \in BagToSet(verifying) : req.room # r
          /\ heap'[r].confirmedPayments > heap[r].confirmedPayments =>
                rooms[heap[r].code] = r]_vars

\* C30: creating a room never replaces a room that is stored in the
\* registry: in the step that adds a room object every code that was in use
\* still leads to the room it led to, and that room is as it was.
C30_CreateNeverReplaces ==
    [][Len(heap') > Len(heap) =>
          \A c \in Codes :
              rooms[c] # NoRoom =>
                  rooms'[c] = rooms[c] /\ heap'[rooms[c]] = heap[rooms[c]]]_vars

PaidCount(room) == Cardinality({i \in 1..Len(room.players) : room.players[i].paid})

\* C32: confirmedPayments is the number of players of the room whose paid
\* flag is true, a paid flag never goes back to false and confirmedPayments
\* never decreases.
C32_ConfirmedCountsPaid ==
    /\ [](\A r \in RoomIds : heap[r].confirmedPayments = PaidCount(heap[r]))
    /\ [][\A r \in RoomIds :
            /\ \A i \in SlotsOf(r) :
                  heap[r].players[i].paid =>
                      i <= Len(heap'[r].players) /\ heap'[r].players[i].paid
            /\ heap'[r].confirmedPayments >= heap[r].confirmedPayments]_vars

\* the joiner has paid before the creator, and a further verification is
\* suspended at the ledger lookup
C32_Witness ==
    \E req \in BagToSet(verifying) :
        /\ Len(heap[req.room].players) = 2 /\ heap[req.room].confirmedPayments = 1
        /\ heap[req.room].players[2].paid /\ ~heap[req.room].players[1].paid

\* C33: when the tick of a move request ends the game, the move is not
\* applied.  Whoever sends it, a move request with coordinates on the board
\* for a playing room whose side on turn has used up its time is answered
\* with the timeout result, and the step that ends the game on the clock
\* leaves board, lastMove and currentTurn as they were and names the opponent
\* of the side on turn as winner.
C33_TimeoutBeatsMove ==
    /\ [](\A c \in GameCodes, p \in PlayerIds, from \in FromSquares, to \in ToSquares :
            (/\ rooms[c] # NoRoom /\ ClockRunsOut(heap[rooms[c]])
             /\ InBounds(from) /\ InBounds(to)) =>
                  MoveReply(c, p, from, to) = Reply(200, "timeout"))
    /\ [][\A r \in RoomIds :
            (heap'[r] # heap[r] /\ ClockRunsOut(heap[r])) =>
                /\ heap'[r].board = heap[r].board
                /\ heap'[r].lastMove = heap[r].lastMove
                /\ heap'[r].currentTurn = heap[r].currentTurn
                /\ heap'[r].status = "finished"
                /\ heap'[r].winner = OpponentId(heap[r])]_vars

\* white ran out of time over its second move: black, player 1, has won
C33_Witness ==
    \E r \in RoomIds :
        /\ heap[r].status = "finished" /\ heap[r].winner = 1
        /\ heap[r].whiteTimeMs = 0 /\ heap[r].lastMove # <<>>

OnTurnId(room) == IF room.currentTurn = "white" THEN 0 ELSE 1

\* C35: the accepted moves of a room alternate between player 0 (white) and
\* player 1 (black), starting with player 0.  Before the first move white is
\* on turn; a move is accepted only from the player of the side on turn;
\* the step of an accepted move passes the turn to the other side unless it
\* ends the game with the mover as winner; and currentTurn changes in no
\* other step.
C35_MovesAlternate ==
    /\ [](/\ \A r \in RoomIds : heap[r].lastMove = <<>> => heap[r].currentTurn = "white"
          /\ \A c \in GameCodes, p \in PlayerIds, from \in FromSquares, to \in ToSquares :
                MoveAccepted(c, p, from, to) => p = OnTurnId(heap[rooms[c]]))
    /\ [][\A r \in RoomIds :
            LET a == heap[r]
                b == heap'[r]
            IN  /\ b.board # a.board =>
                      /\ a.status = "playing"
                      /\ \/ b.status = "playing" /\ b.currentTurn = OtherTurn(a.currentTurn)
                         \/ /\ b.status = "finished" /\ b.winner = OnTurnId(a)
                            /\ b.currentTurn = a.currentTurn
                /\ b.currentTurn # a.currentTurn =>
                      b.board # a.board /\ b.lastMove # <<>> /\ b.status = "playing"]_vars

\* white is on turn again: white and black have each made a move
C35_Witness ==
    \E r \in RoomIds :
        /\ heap[r].status = "playing" /\ heap[r].currentTurn = "white"
        /\ heap[r].lastMove # <<>>

\* the squares that hold the king of the side on turn
OwnKingSquares(room) ==
    {sq \in AllSquares : At(room.board, sq) = IF room.currentTurn = "white" THEN "K" ELSE "k"}

\* C36: a move whose destination square holds the mover's own king, the
\* move from the king's square to itself included, is accepted as a king
\* capture: the request of the player on turn from any square of its own to
\* the square of its own king is answered with the game-over result, and the
\* step of a move to that square finishes the game with the mover as winner.
C36_OwnKingCapture ==
    /\ [](\A c \in GameCodes :
            (rooms[c] # NoRoom /\ heap[rooms[c]].status = "playing") =>
                \A from \in OwnSquares(heap[rooms[c]]), to \in OwnKingSquares(heap[rooms[c]]) :
                    MoveReply(c, OnTurnId(heap[rooms[c]]), from, to) = Reply(200, "gameOver"))
    /\ [][\A r \in RoomIds :
            (/\ heap'[r].board # heap[r].board
             /\ heap'[r].lastMove[2] \in OwnKingSquares(heap[r])) =>
                 /\ heap'[r].status = "finished"
                 /\ heap'[r].winner = OnTurnId(heap[r])
                 /\ heap'[r].finishedAt = now]_vars

\* white has won and there is no white king on the board
C36_Witness ==
    \E r \in RoomIds :
        /\ heap[r].status = "finished" /\ heap[r].winner = 0
        /\ \A sq \in AllSquares : At(heap[r].board, sq) # "K"

\* the replies of a move request that is rejected after the clock tick
MoveRejections == {"Invalid player", "Not your turn", "No piece", "Not your piece"}

\* the room with its two clocks and lastMoveTime taken from another room
WithClocksOf(room, other) ==
    [room EXCEPT !.whiteTimeMs = other.whiteTimeMs, !.blackTimeMs = other.blackTimeMs,
                 !.lastMoveTime = other.lastMoveTime]

\* C37: a move request on a playing room that is rejected for invalid
\* player, not your turn, no piece or not your piece leaves board,
\* currentTurn, lastMove, winner and status unchanged and may change only
\* the clock of the side on turn and lastMoveTime.  Such a request comes
\* after a tick that left the game on; a step of a playing room that leaves
\* the board alone and the game on changes nothing but the clock of the side
\* on turn and lastMoveTime; and a step that changes the board starts from a
\* square holding a piece of the side on turn.
C37_RejectedMoveFrame ==
    /\ [](\A c \in GameCodes, p \in PlayerIds, from \in FromSquares, to \in ToSquares :
            MoveReply(c, p, from, to).msg \in MoveRejections =>
                LET a == heap[rooms[c]]
                    t == updateTimer(a).room
                IN  /\ a.status = "playing" /\ t.status = "playing"
                    /\ t.winner = NoWinner
                    /\ WithClocksOf(t, a) = a
                    /\ TimeOffTurn(t) = TimeOffTurn(a))
    /\ [][\A r \in RoomIds :
            LET a == heap[r]
                b == heap'[r]
            IN  /\ (/\ a.status = "playing" /\ b.status = "playing"
                    /\ b.board = a.board) =>
                        WithClocksOf(b, a) = a /\ TimeOffTurn(b) = TimeOffTurn(a)
                /\ b.board # a.board => b.lastMove[1] \in OwnSquares(a)]_vars

\* black is on turn and has not moved yet, and its clock has been charged by
\* a request that made no move
C37_Witness ==
    \E r \in RoomIds :
        /\ heap[r].status = "playing" /\ heap[r].currentTurn = "black"
        /\ heap[r].lastMove = << <<6, 4>>, <<4, 4>> >>
        /\ heap[r].blackTimeMs < GAME_TIME_MS

C39_GameEnds ==
    /\ \A c \in GameCodes :
          (rooms[c] # NoRoom /\ heap[rooms[c]].status = "playing") ~>
              (rooms[c] # NoRoom /\ heap[rooms[c]].status = "finished")
    /\ [][\A r \in RoomIds :
            LET a == heap[r]
                b == heap'[r]
            IN  (a.status = "playing" /\ b # a /\ now > a.lastMoveTime) =>
                    /\ (IF a.currentTurn = "white" THEN b.whiteTimeMs ELSE b.blackTimeMs)
                          < TimeOnTurn(a)
                    /\ b.whiteTimeMs <= a.whiteTimeMs /\ b.blackTimeMs <= a.blackTimeMs]_vars

\* the game was ended by the clock after both sides had moved
C39_Witness ==
    \E r \in RoomIds :
        /\ heap[r].status = "finished" /\ heap[r].lastMove # <<>>
        /\ heap[r].currentTurn = "white" /\ heap[r].whiteTimeMs = 0
        /\ heap[r].blackTimeMs < GAME_TIME_MS

====
